---- MODULE Spec2Model ----
(***************************************************************************)
(* healthtracker: a per-day record store (History: NaiveDate -> Day) that  *)
(* every command loads from data.ron, mutates by one merge and rewrites.   *)
(*                                                                         *)
(* Representation                                                          *)
(*   Option<T>     None is <<>>, Some(x) is <<x>>                          *)
(*   f32           an integer number of hundredths (10.0 is 1000)          *)
(*   NaiveDate     [year, ordinal] (day of the year), as chrono stores it  *)
(*   date string   [y, m, d, sep]: the three number fields of the text and *)
(*                 the separator written between them                      *)
(*   file          [exists, whole, entries]: whole is FALSE while the text *)
(*                 is the empty or partial text a truncation leaves behind *)
(***************************************************************************)
EXTENDS Integers, Sequences, FiniteSets, TLC

(* ---------------------------------------------------------------- bounds *)

\* Number of log_weight / log_sport invocations in one behaviour.
MaxCalls == 2

\* Input values the callers draw from.
Weights == {7050, 8000}
Distances == {999, 1000}
GoodDateStrs ==
    { [y |-> 2023, m |-> 12, d |-> 31, sep |-> "-"],
      [y |-> 2024, m |-> 1, d |-> 1, sep |-> "-"],
      [y |-> 2024, m |-> 1, d |-> 2, sep |-> "-"] }
BadDateStrs ==
    { [y |-> 2024, m |-> 2, d |-> 30, sep |-> "-"],
      [y |-> 2024, m |-> 1, d |-> 1, sep |-> "."] }

Procs == {1, 2}
\* Non-overlapping invocations are indistinguishable: one process issues them.
SeqProcs == {1}

(* --------------------------------------------------------------- Option *)

None == <<>>
Some(x) == <<x>>
unwrap_or(o, default) == IF o = None THEN default ELSE o[1]

(* ------------------------------------------------------------ constants *)

BIKING_DISTANCE == 1000

(* ---------------------------------------------------------------- dates *)

IsLeap(y) == (y % 4 = 0 /\ y % 100 # 0) \/ y % 400 = 0

DaysInMonth(y, m) ==
    IF m = 2 THEN (IF IsLeap(y) THEN 29 ELSE 28)
    ELSE IF m \in {4, 6, 9, 11} THEN 30 ELSE 31

DaysInYear(y) == IF IsLeap(y) THEN 366 ELSE 365

RECURSIVE DaysBefore(_, _)
DaysBefore(y, m) == IF m <= 1 THEN 0 ELSE DaysBefore(y, m - 1) + DaysInMonth(y, m - 1)

NoDate == [year |-> 0, ordinal |-> 0]

\* NaiveDate::parse_from_str(s, "%Y-%m-%d")
parse_from_str(s) ==
    IF s.sep = "-" /\ s.m \in 1..12 /\ s.d \in 1..DaysInMonth(s.y, s.m)
    THEN [ok |-> TRUE, date |-> [year |-> s.y, ordinal |-> DaysBefore(s.y, s.m) + s.d]]
    ELSE [ok |-> FALSE, date |-> NoDate]

\* The text serde writes for a NaiveDate key (and Display prints): YYYY-MM-DD.
date_to_string(date) ==
    LET m == CHOOSE k \in 1..12 :
                 /\ DaysBefore(date.year, k) < date.ordinal
                 /\ date.ordinal <= DaysBefore(date.year, k) + DaysInMonth(date.year, k)
    IN [y |-> date.year, m |-> m, d |-> date.ordinal - DaysBefore(date.year, m), sep |-> "-"]

\* chrono::naive::MIN_DATE: the first date a NaiveDate can hold, January 1 of
\* the year -262144.
MIN_DATE == [year |-> 0 - 262144, ordinal |-> 1]

\* NaiveDate::pred_opt(): the previous calendar day, None before MIN_DATE.
pred_opt(date) ==
    IF date = MIN_DATE THEN None
    ELSE IF date.ordinal > 1
    THEN Some([year |-> date.year, ordinal |-> date.ordinal - 1])
    ELSE Some([year |-> date.year - 1, ordinal |-> DaysInYear(date.year - 1)])

\* NaiveDate::pred() is pred_opt().expect("out of bound"): the previous
\* calendar day of a date that has one.
pred(date) == pred_opt(date)[1]

\* The order as it would be if dates were compared by their day of the year.
date_lt_ordinal(a, b) == a.ordinal < b.ordinal

\* Ord for NaiveDate: a.cmp(b) is Less.
date_lt(a, b) == a.year < b.year \/ (a.year = b.year /\ a.ordinal < b.ordinal)

\* Local::today().naive_local(): whatever day the clock shows.
Todays == { parse_from_str(s).date : s \in GoodDateStrs }

\* get_date as it would be if a string that does not parse meant today.
get_date_lenient(date_str, today) ==
    IF date_str # None /\ parse_from_str(date_str[1]).ok
    THEN [ok |-> TRUE, date |-> parse_from_str(date_str[1]).date, err |-> ""]
    ELSE [ok |-> TRUE, date |-> today, err |-> ""]

\* get_date(date_str)
get_date(date_str, today) ==
    IF date_str # None
    THEN LET r == parse_from_str(date_str[1])
         IN [ok |-> r.ok, date |-> r.date, err |-> IF r.ok THEN "" ELSE "ChronoParse"]
    ELSE [ok |-> TRUE, date |-> today, err |-> ""]

(* ------------------------------------------------------------------ Day *)

Day_new(weight, workout, training, biking, cheatday) ==
    [weight |-> weight, workout |-> workout, training |-> training,
     biking |-> biking, cheatday |-> cheatday]

(* --------------------------------------------------------- History, map *)

EmptyMap == <<>>

\* insert as it would be if it kept no other key.
insert_alone(map, date, day) == [k \in {date} |-> day]

\* HashMap::insert
insert(map, date, day) ==
    [k \in DOMAIN map \cup {date} |-> IF k = date THEN day ELSE map[k]]

\* log_weight as it would be if it built the record anew.
History_log_weight_fresh(map, date, weight) ==
    insert(map, date, Day_new(Some(weight), FALSE, FALSE, None, FALSE))

\* log_weight as it would be if the record it creates had no weight.
History_log_weight_unset(map, date, weight) ==
    LET day == IF date \in DOMAIN map
               THEN Day_new(Some(weight), map[date].workout, map[date].training,
                            map[date].biking, map[date].cheatday)
               ELSE Day_new(None, FALSE, FALSE, None, FALSE)
    IN insert(map, date, day)

History_log_weight(map, date, weight) ==
    LET day == IF date \in DOMAIN map
               THEN Day_new(Some(weight), map[date].workout, map[date].training,
                            map[date].biking, map[date].cheatday)
               ELSE Day_new(Some(weight), FALSE, FALSE, None, FALSE)
    IN insert(map, date, day)

\* log_sport as it would be if the supplied flags replaced the stored ones.
History_log_sport_replace(map, date, workout, training, biking, cheatday) ==
    LET day == IF date \in DOMAIN map
               THEN Day_new(map[date].weight, workout, training,
                            IF biking # None THEN Some(biking[1]) ELSE map[date].biking,
                            cheatday)
               ELSE Day_new(None, workout, training, biking, cheatday)
    IN insert(map, date, day)

\* log_sport as it would be if it built the record anew, without a weight.
History_log_sport_no_weight(map, date, workout, training, biking, cheatday) ==
    LET day == IF date \in DOMAIN map
               THEN Day_new(None,
                            map[date].workout \/ workout,
                            map[date].training \/ training,
                            IF biking # None THEN Some(biking[1]) ELSE map[date].biking,
                            map[date].cheatday \/ cheatday)
               ELSE Day_new(None, workout, training, biking, cheatday)
    IN insert(map, date, day)

\* log_sport as it would be if the supplied biking value were stored as given.
History_log_sport_biking_given(map, date, workout, training, biking, cheatday) ==
    LET day == IF date \in DOMAIN map
               THEN Day_new(map[date].weight,
                            map[date].workout \/ workout,
                            map[date].training \/ training,
                            biking,
                            map[date].cheatday \/ cheatday)
               ELSE Day_new(None, workout, training, biking, cheatday)
    IN insert(map, date, day)

\* log_sport as it would be if the record it creates had no biking value.
History_log_sport_create_bare(map, date, workout, training, biking, cheatday) ==
    LET day == IF date \in DOMAIN map
               THEN Day_new(map[date].weight,
                            map[date].workout \/ workout,
                            map[date].training \/ training,
                            IF biking # None THEN Some(biking[1]) ELSE map[date].biking,
                            map[date].cheatday \/ cheatday)
               ELSE Day_new(None, workout, training, None, cheatday)
    IN insert(map, date, day)

\* log_sport as it would be if a supplied flag flipped the stored one.
History_log_sport_toggle(map, date, workout, training, biking, cheatday) ==
    LET day == IF date \in DOMAIN map
               THEN Day_new(map[date].weight,
                            map[date].workout # workout,
                            map[date].training # training,
                            IF biking # None THEN Some(biking[1]) ELSE map[date].biking,
                            map[date].cheatday # cheatday)
               ELSE Day_new(None, workout, training, biking, cheatday)
    IN insert(map, date, day)

History_log_sport(map, date, workout, training, biking, cheatday) ==
    LET day == IF date \in DOMAIN map
               THEN Day_new(map[date].weight,
                            map[date].workout \/ workout,
                            map[date].training \/ training,
                            IF biking # None THEN Some(biking[1]) ELSE map[date].biking,
                            map[date].cheatday \/ cheatday)
               ELSE Day_new(None, workout, training, biking, cheatday)
    IN insert(map, date, day)

\* The condition as it would be with > in place of >=.
is_active_above(day) ==
    day.workout \/ day.training \/ unwrap_or(day.biking, 0) > BIKING_DISTANCE

\* The condition of line 172: the day counts for the streak.
is_active(day) ==
    day.workout \/ day.training \/ unwrap_or(day.biking, 0) >= BIKING_DISTANCE

\* The streak as it would be if the walk did not go back a day.
get_sport_streak_one_day(map, date) ==
    IF date \notin DOMAIN map THEN 0
    ELSE IF is_active(map[date]) THEN 1
    ELSE 0

\* What a call yields that panics instead of returning a streak.
PANIC == 0 - 1

\* date.pred() panics on MIN_DATE, and the panic passes through every
\* pending 1 + ... of the walk.
RECURSIVE get_sport_streak(_, _)
get_sport_streak(map, date) ==
    IF date \notin DOMAIN map THEN 0
    ELSE IF is_active(map[date])
    THEN IF pred_opt(date) = None THEN PANIC
         ELSE LET rest == get_sport_streak(map, pred(date))
              IN IF rest = PANIC THEN PANIC ELSE 1 + rest
    ELSE 0

(* -------------------------------------------------------- serialization *)

\* The text of an f32 as it would be if it were written without its fraction.
f32_to_string_whole(v) == [int |-> v \div 100, frac |-> 0]

\* The decimal text of an f32 and its parse.
f32_to_string(v) == [int |-> v \div 100, frac |-> v % 100]
string_to_f32(t) == t.int * 100 + t.frac

ser_option(o) == IF o = None THEN None ELSE Some(f32_to_string(o[1]))
de_option(t) == IF t = None THEN None ELSE Some(string_to_f32(t[1]))

\* ron::ser::to_string(&History): one entry per key of the map. The order in
\* which a HashMap yields its entries is unspecified and the decoder does not
\* depend on it, so the text is kept as the set of its entries.
to_string(map) ==
    { [date |-> date_to_string(k),
       weight |-> ser_option(map[k].weight),
       workout |-> map[k].workout,
       training |-> map[k].training,
       biking |-> ser_option(map[k].biking),
       cheatday |-> map[k].cheatday] : k \in DOMAIN map }

\* Deserialize for Day: cheatday is #[serde(default)].
de_day(e) ==
    Day_new(de_option(e.weight), e.workout, e.training, de_option(e.biking),
            IF "cheatday" \in DOMAIN e THEN e.cheatday ELSE FALSE)

\* ron::from_str::<History>(text)
from_str(entries) ==
    IF \E e \in entries : ~parse_from_str(e.date).ok
    THEN [ok |-> FALSE, map |-> EmptyMap, err |-> "Ron"]
    ELSE LET keys == { parse_from_str(e.date).date : e \in entries }
         IN [ok |-> TRUE,
             map |-> [k \in keys |->
                        de_day(CHOOSE e \in entries : parse_from_str(e.date).date = k)],
             err |-> ""]

\* The number of characters of the text: true, false, None, Some(<f32>), the
\* quoted date key and the field names of an entry, (map:{ ... }) around the
\* entries and a comma between two of them. An f32 is written with at least
\* one digit after the point.
f32_len(t) ==
    (IF t.int < 10 THEN 1 ELSE IF t.int < 100 THEN 2 ELSE 3)
    + (IF t.frac % 10 = 0 THEN 2 ELSE 3)
option_len(t) == IF t = None THEN 4 ELSE 6 + f32_len(t[1])
bool_len(b) == IF b THEN 4 ELSE 5
entry_len(e) ==
    59 + option_len(e.weight) + bool_len(e.workout) + bool_len(e.training)
       + option_len(e.biking) + bool_len(e.cheatday)

RECURSIVE entries_len(_)
entries_len(entries) ==
    IF entries = {} THEN 0
    ELSE LET e == CHOOSE x \in entries : TRUE
         IN entry_len(e) + entries_len(entries \ {e})

text_len(entries) ==
    8 + entries_len(entries)
      + (IF entries = {} THEN 0 ELSE Cardinality(entries) - 1)

(* ----------------------------------------------------------------- file *)

\* size is the length of the file; entries is the text it begins with, and
\* whole says that it holds nothing else.
NoFile == [exists |-> FALSE, whole |-> FALSE, entries |-> {}, size |-> 0]
\* What File::create leaves: the file exists and its text is empty.
Truncated == [exists |-> TRUE, whole |-> FALSE, entries |-> {}, size |-> 0]
Written(map) ==
    [exists |-> TRUE, whole |-> TRUE, entries |-> to_string(map),
     size |-> text_len(to_string(map))]

\* The file after the text of map is written at offset 0 of a file f: the
\* writer's own File starts at 0 whatever the file holds by then, and what
\* lies beyond the end of the new text stays.
write_at_start(f, map) ==
    IF f.size > text_len(to_string(map))
    THEN [exists |-> TRUE, whole |-> FALSE, entries |-> to_string(map), size |-> f.size]
    ELSE Written(map)

LoadFaults == {"none", "xdg", "read"}

\* load as it would be if it never read the file.
History_load_fresh(f, fault) ==
    IF fault = "xdg" THEN [ok |-> FALSE, map |-> EmptyMap, err |-> "XDGBaseDirectories"]
    ELSE [ok |-> TRUE, map |-> EmptyMap, err |-> ""]

\* load as it would be if it read the file without looking for it first.
History_load_unsought(f, fault) ==
    IF fault = "xdg" THEN [ok |-> FALSE, map |-> EmptyMap, err |-> "XDGBaseDirectories"]
    ELSE IF ~f.exists \/ fault = "read" THEN [ok |-> FALSE, map |-> EmptyMap, err |-> "IOError"]
    ELSE IF ~f.whole THEN [ok |-> FALSE, map |-> EmptyMap, err |-> "Ron"]
    ELSE from_str(f.entries)

\* History::load()
History_load(f, fault) ==
    IF fault = "xdg" THEN [ok |-> FALSE, map |-> EmptyMap, err |-> "XDGBaseDirectories"]
    ELSE IF ~f.exists THEN [ok |-> TRUE, map |-> EmptyMap, err |-> ""]
    ELSE IF fault = "read" THEN [ok |-> FALSE, map |-> EmptyMap, err |-> "IOError"]
    ELSE IF ~f.whole THEN [ok |-> FALSE, map |-> EmptyMap, err |-> "Ron"]
    ELSE from_str(f.entries)

(* ---------------------------------------------------------------- table *)

CHECK == "check mark"
FAIL == "cross mark"

get_mark(input) == IF input THEN CHECK ELSE FAIL

\* history_vec.sort_by(|a, b| a.0.cmp(b.0)) over the keys of the map.
RECURSIVE sort_by_date(_)
sort_by_date(keys) ==
    IF keys = {} THEN <<>>
    ELSE LET first == CHOOSE a \in keys : \A b \in keys \ {a} : date_lt(a, b)
         IN <<first>> \o sort_by_date(keys \ {first})

\* The rows of get_days_table (a blank cell is None).
get_days_table(map) ==
    LET order == sort_by_date(DOMAIN map)
    IN [i \in 1..Len(order) |->
          [date |-> date_to_string(order[i]),
           weight |-> ser_option(map[order[i]].weight),
           workout |-> get_mark(map[order[i]].workout),
           training |-> get_mark(map[order[i]].training),
           biking |-> ser_option(map[order[i]].biking),
           cheatday |-> get_mark(map[order[i]].cheatday)]]

(* ---------------------------------------------------------------- state *)

VARIABLES
    file,       \* the data file data.ron
    pc,         \* pc[p]: where invocation p stands
    args,       \* args[p]: the arguments of the running call
    history,    \* history[p]: the local `history` of the running call
    cur_date,   \* cur_date[p]: the local `date` of the running call
    result,     \* result[p]: what the last finished call returned
    out,        \* out[p]: what analyze has printed
    file0,      \* history variable: the file as it was when call p began
    calls,      \* history variable: log calls begun so far
    mem,        \* history variable: the merges so far, applied to one store
    allok       \* history variable: no step of any log call has failed

vars == <<file, pc, args, history, cur_date, result, out, file0, calls, mem, allok>>

NoArgs ==
    [op |-> "none", weight |-> 0, workout |-> FALSE, training |-> FALSE,
     biking |-> None, cheatday |-> FALSE, date_str |-> None]
NoOut == [table |-> <<>>, sport_streak |-> 0]

DateStrs == {None} \cup { Some(s) : s \in GoodDateStrs \cup BadDateStrs }
\* The argument lists of log_sport: one for each command of the command line
\* (workout, training, biking <distance>, cheatday), the call that supplies
\* nothing, and calls that supply several values at once.
Bikings == {None} \cup { Some(d) : d \in Distances }
SportInputs ==
    { <<TRUE, FALSE, None, FALSE>>, <<FALSE, TRUE, None, FALSE>>,
      <<FALSE, FALSE, None, TRUE>>, <<FALSE, FALSE, None, FALSE>>,
      <<TRUE, TRUE, None, TRUE>> }
    \cup { <<FALSE, FALSE, Some(d), FALSE>> : d \in Distances }
    \cup { <<TRUE, FALSE, Some(d), TRUE>> : d \in Distances }

Init ==
    /\ file = NoFile
    /\ pc = [p \in Procs |-> "idle"]
    /\ args = [p \in Procs |-> NoArgs]
    /\ history = [p \in Procs |-> EmptyMap]
    /\ cur_date = [p \in Procs |-> NoDate]
    /\ result = [p \in Procs |-> "none"]
    /\ out = [p \in Procs |-> NoOut]
    /\ file0 = [p \in Procs |-> NoFile]
    /\ calls = 0
    /\ mem = EmptyMap
    /\ allok = TRUE

\* A call returns: its locals are dropped.
Return(p, res) ==
    /\ pc' = [pc EXCEPT ![p] = "idle"]
    /\ result' = [result EXCEPT ![p] = res]
    /\ args' = [args EXCEPT ![p] = NoArgs]
    /\ history' = [history EXCEPT ![p] = EmptyMap]
    /\ cur_date' = [cur_date EXCEPT ![p] = NoDate]
    /\ file0' = [file0 EXCEPT ![p] = NoFile]

\* A log call fails (or loses its write): the run is no longer a sequence of
\* successful invocations.
Failed ==
    /\ allok' = FALSE
    /\ mem' = EmptyMap

\* The entry of a log call: its arguments are bound.
Enter(p, a) ==
    /\ pc' = [pc EXCEPT ![p] = "load"]
    /\ args' = [args EXCEPT ![p] = a]
    /\ result' = [result EXCEPT ![p] = "none"]
    /\ file0' = [file0 EXCEPT ![p] = file]
    /\ calls' = calls + 1
    /\ UNCHANGED <<file, history, cur_date, out, mem, allok>>

\* pub fn log_weight(weight, date_str) is entered.
LogWeightCall(p, weight, date_str) ==
    /\ pc[p] = "idle"
    /\ calls < MaxCalls
    /\ Enter(p, [NoArgs EXCEPT !.op = "log_weight", !.weight = weight,
                               !.date_str = date_str])

\* pub fn log_sport(workout, training, biking, cheatday, date_str) is entered.
LogSportCall(p, workout, training, biking, cheatday, date_str) ==
    /\ pc[p] = "idle"
    /\ calls < MaxCalls
    /\ Enter(p, [NoArgs EXCEPT !.op = "log_sport", !.workout = workout,
                               !.training = training, !.biking = biking,
                               !.cheatday = cheatday, !.date_str = date_str])

\* let mut history = History::load()?;
Load(p, fault) ==
    /\ pc[p] = "load"
    /\ LET r == History_load(file, fault)
       IN IF r.ok
          THEN /\ pc' = [pc EXCEPT ![p] = "date"]
               /\ history' = [history EXCEPT ![p] = r.map]
               /\ UNCHANGED <<args, cur_date, result, file0, mem, allok>>
          ELSE /\ Return(p, r.err)
               /\ Failed
    /\ UNCHANGED <<file, out, calls>>

\* The merge the call applies to a store.
merge(map, a, date) ==
    IF a.op = "log_weight"
    THEN History_log_weight(map, date, a.weight)
    ELSE History_log_sport(map, date, a.workout, a.training, a.biking, a.cheatday)

\* let date = get_date(date_str)?; history.log_weight(date, weight);
\* (or history.log_sport(date, workout, training, biking, cheatday);)
Mutate(p, today) ==
    /\ pc[p] = "date"
    /\ LET r == get_date(args[p].date_str, today)
       IN IF r.ok
          THEN /\ history' = [history EXCEPT ![p] = merge(history[p], args[p], r.date)]
               /\ cur_date' = [cur_date EXCEPT ![p] = r.date]
               /\ pc' = [pc EXCEPT ![p] = "save"]
               /\ args' = [args EXCEPT ![p] = NoArgs]
               /\ mem' = IF allok THEN merge(mem, args[p], r.date) ELSE mem
               /\ UNCHANGED <<result, file0, allok>>
          ELSE /\ Return(p, r.err)
               /\ Failed
    /\ UNCHANGED <<file, out, calls>>

CreateFaults == {"none", "xdg", "place", "create"}

\* History::save, lines 158-160: the directories and File::create, which
\* truncates the file it opens.
SaveCreate(p, fault) ==
    /\ pc[p] = "save"
    /\ IF fault = "none"
       THEN /\ file' = Truncated
            /\ pc' = [pc EXCEPT ![p] = "write"]
            /\ UNCHANGED <<args, history, cur_date, result, file0, mem, allok>>
       ELSE /\ Return(p, IF fault = "xdg" THEN "XDGBaseDirectories" ELSE "IOError")
            /\ Failed
            /\ UNCHANGED file
    /\ UNCHANGED <<out, calls>>

WriteFaults == {"none", "serialize", "write", "flush"}

\* History::save, lines 161-163: the text is serialized and written through a
\* BufWriter. A text that fits the buffer reaches the file only when the
\* writer is dropped, and drop discards the error of a failed flush.
SaveWrite(p, fault) ==
    /\ pc[p] = "write"
    /\ IF fault = "none"
       THEN /\ file' = write_at_start(file, history[p])
            /\ Return(p, "Ok")
            /\ UNCHANGED <<mem, allok>>
       ELSE /\ UNCHANGED file
            /\ Return(p, CASE fault = "serialize" -> "Ron"
                           [] fault = "write" -> "IOError"
                           [] OTHER -> "Ok")
            /\ Failed
    /\ UNCHANGED <<out, calls>>

\* analyze as it would be if it opened the data file with File::create.
Analyze_creating(p, fault, today) ==
    /\ pc[p] = "idle"
    /\ LET r == History_load(file, fault)
       IN IF r.ok /\ get_sport_streak(r.map, today) # PANIC
          THEN /\ pc' = [pc EXCEPT ![p] = "print"]
               /\ out' = [out EXCEPT ![p] =
                            [table |-> get_days_table(r.map),
                             sport_streak |-> get_sport_streak(r.map, today)]]
               /\ result' = [result EXCEPT ![p] = "none"]
          ELSE IF r.ok
          THEN /\ pc' = pc
               /\ out' = [out EXCEPT ![p] =
                            [NoOut EXCEPT !.table = get_days_table(r.map)]]
               /\ result' = [result EXCEPT ![p] = "panic"]
          ELSE /\ pc' = pc
               /\ out' = out
               /\ result' = [result EXCEPT ![p] = r.err]
    /\ file' = Truncated
    /\ UNCHANGED <<args, history, cur_date, file0, calls, mem, allok>>

\* pub fn analyze(): load, print the table and the streak ending today.
Analyze(p, fault, today) ==
    /\ pc[p] = "idle"
    /\ LET r == History_load(file, fault)
       IN IF r.ok /\ get_sport_streak(r.map, today) # PANIC
          THEN /\ pc' = [pc EXCEPT ![p] = "print"]
               /\ out' = [out EXCEPT ![p] =
                            [table |-> get_days_table(r.map),
                             sport_streak |-> get_sport_streak(r.map, today)]]
               /\ result' = [result EXCEPT ![p] = "none"]
          ELSE IF r.ok
          THEN /\ pc' = pc
               /\ out' = [out EXCEPT ![p] =
                            [NoOut EXCEPT !.table = get_days_table(r.map)]]
               /\ result' = [result EXCEPT ![p] = "panic"]
          ELSE /\ pc' = pc
               /\ out' = out
               /\ result' = [result EXCEPT ![p] = r.err]
    /\ UNCHANGED <<file, args, history, cur_date, file0, calls, mem, allok>>

\* analyze returns Ok(()).
AnalyzeReturn(p) ==
    /\ pc[p] = "print"
    /\ pc' = [pc EXCEPT ![p] = "idle"]
    /\ out' = [out EXCEPT ![p] = NoOut]
    /\ result' = [result EXCEPT ![p] = "Ok"]
    /\ UNCHANGED <<file, args, history, cur_date, file0, calls, mem, allok>>

\* Invocations run one after another.
Next ==
    \E p \in SeqProcs :
        \/ \E w \in Weights, ds \in DateStrs : LogWeightCall(p, w, ds)
        \/ \E s \in SportInputs, ds \in DateStrs :
              LogSportCall(p, s[1], s[2], s[3], s[4], ds)
        \/ \E fault \in LoadFaults : Load(p, fault)
        \/ \E today \in Todays : Mutate(p, today)
        \/ \E fault \in CreateFaults : SaveCreate(p, fault)
        \/ \E fault \in WriteFaults : SaveWrite(p, fault)
        \/ \E fault \in LoadFaults, today \in Todays : Analyze(p, fault, today)
        \/ AnalyzeReturn(p)

Spec == Init /\ [][Next]_vars

(* ------------------------------------------------- overlapping invocations *)

\* Process p has not run its command yet.
NotStarted(p) == pc[p] = "idle" /\ result[p] = "none"

\* Two processes run one log command each; nothing orders their steps.
NextConc ==
    \E p \in Procs :
        \/ \E w \in Weights, ds \in DateStrs :
              NotStarted(p) /\ LogWeightCall(p, w, ds)
        \/ \E s \in SportInputs, ds \in DateStrs :
              NotStarted(p) /\ LogSportCall(p, s[1], s[2], s[3], s[4], ds)
        \/ \E fault \in LoadFaults : Load(p, fault)
        \/ \E today \in Todays : Mutate(p, today)
        \/ \E fault \in CreateFaults : SaveCreate(p, fault)
        \/ \E fault \in WriteFaults : SaveWrite(p, fault)

SpecConc == Init /\ [][NextConc]_vars

(* -------------------------------------------- analyze over stored histories *)

\* Records a day can hold once log calls have built it: each mix of workout
\* and training, each biking distance alone and next to a workout, and days
\* that hold a weight and a cheat day.
StoredDays ==
    { Day_new(None, wo, tr, None, FALSE) : wo \in BOOLEAN, tr \in BOOLEAN }
    \cup { Day_new(None, FALSE, FALSE, Some(d), FALSE) : d \in Distances }
    \cup { Day_new(Some(w), FALSE, FALSE, None, TRUE) : w \in Weights }
    \cup { Day_new(Some(7050), TRUE, FALSE, Some(999), FALSE),
           Day_new(Some(7050), FALSE, FALSE, Some(999), TRUE) }

StoredMaps ==
    UNION { [keys -> StoredDays] : keys \in SUBSET Todays }

\* The file holds a history that earlier log calls have written.
InitStored ==
    /\ \E map \in StoredMaps :
          /\ file = Written(map)
          /\ mem = map
    /\ pc = [p \in Procs |-> "idle"]
    /\ args = [p \in Procs |-> NoArgs]
    /\ history = [p \in Procs |-> EmptyMap]
    /\ cur_date = [p \in Procs |-> NoDate]
    /\ result = [p \in Procs |-> "none"]
    /\ out = [p \in Procs |-> NoOut]
    /\ file0 = [p \in Procs |-> NoFile]
    /\ calls = 0
    /\ allok = TRUE

NextAnalyze ==
    \E p \in SeqProcs :
        \/ \E fault \in LoadFaults, today \in Todays : Analyze(p, fault, today)
        \/ AnalyzeReturn(p)

SpecAnalyze == InitStored /\ [][NextAnalyze]_vars

(* ------------------------------------- the streak at the first dates *)

\* MIN_DATE and the two days after it.
FirstDates == { [year |-> MIN_DATE.year, ordinal |-> o] : o \in 1..3 }

FirstMaps ==
    UNION { [keys -> StoredDays] : keys \in SUBSET FirstDates }

\* The file holds a history with records on some of the first dates.
InitFirst ==
    /\ \E map \in FirstMaps :
          /\ file = Written(map)
          /\ mem = map
    /\ pc = [p \in Procs |-> "idle"]
    /\ args = [p \in Procs |-> NoArgs]
    /\ history = [p \in Procs |-> EmptyMap]
    /\ cur_date = [p \in Procs |-> NoDate]
    /\ result = [p \in Procs |-> "none"]
    /\ out = [p \in Procs |-> NoOut]
    /\ file0 = [p \in Procs |-> NoFile]
    /\ calls = 0
    /\ allok = TRUE

\* history.get_sport_streak(date) on the loaded history, for a reference
\* date of the caller's choice.
StreakCall(p, date) ==
    /\ pc[p] = "idle"
    /\ History_load(file, "none").ok
    /\ LET streak == get_sport_streak(History_load(file, "none").map, date)
       IN IF streak # PANIC
          THEN /\ pc' = [pc EXCEPT ![p] = "print"]
               /\ out' = [out EXCEPT ![p] = [NoOut EXCEPT !.sport_streak = streak]]
               /\ result' = [result EXCEPT ![p] = "none"]
          ELSE /\ pc' = pc
               /\ out' = out
               /\ result' = [result EXCEPT ![p] = "panic"]
    /\ cur_date' = [cur_date EXCEPT ![p] = date]
    /\ UNCHANGED <<file, args, history, file0, calls, mem, allok>>

\* The streak is returned to the caller.
StreakReturn(p) ==
    /\ pc[p] = "print"
    /\ pc' = [pc EXCEPT ![p] = "idle"]
    /\ out' = [out EXCEPT ![p] = NoOut]
    /\ cur_date' = [cur_date EXCEPT ![p] = NoDate]
    /\ result' = [result EXCEPT ![p] = "Ok"]
    /\ UNCHANGED <<file, args, history, file0, calls, mem, allok>>

NextFirst ==
    \E p \in SeqProcs :
        \/ \E date \in FirstDates : StreakCall(p, date)
        \/ StreakReturn(p)

SpecFirst == InitFirst /\ [][NextFirst]_vars

(* ------------------------------------------------------ merge properties *)

\* The step in which call p applies its merge to the loaded history.
Merged(p) == pc[p] = "date" /\ pc'[p] = "save"

FlagsKept(old, new) ==
    /\ old.workout => new.workout
    /\ old.training => new.training
    /\ old.cheatday => new.cheatday

\* C1: log_sport sets workout, training and cheatday of an existing record to
\* (stored value OR supplied value); over any sequence of log_weight and
\* log_sport calls a flag that is true in a date's record stays true, both in
\* the history a call merges into and in the store the calls build up.
C1_OrMerge ==
    [][/\ \A p \in Procs :
            Merged(p) =>
                /\ \A d \in DOMAIN history[p] :
                       /\ d \in DOMAIN history'[p]
                       /\ FlagsKept(history[p][d], history'[p][d])
                /\ (args[p].op = "log_sport" /\ cur_date'[p] \in DOMAIN history[p]) =>
                       LET old == history[p][cur_date'[p]]
                           new == history'[p][cur_date'[p]]
                       IN /\ new.workout = (old.workout \/ args[p].workout)
                          /\ new.training = (old.training \/ args[p].training)
                          /\ new.cheatday = (old.cheatday \/ args[p].cheatday)
       /\ allok' => \A d \in DOMAIN mem :
                       d \in DOMAIN mem' /\ FlagsKept(mem[d], mem'[d])
      ]_vars

\* workout=true and later training=true for the same date: both are stored.
C1_Witness ==
    \E d \in DOMAIN mem :
        /\ allok
        /\ calls = 2
        /\ mem[d] = Day_new(None, TRUE, TRUE, None, FALSE)
        /\ file = Written(mem)

\* C2: log_weight on a history that has a record for the date replaces the
\* weight of that record by the logged weight and leaves its workout,
\* training, biking and cheatday as they were.
C2_WeightOnly ==
    [][\A p \in Procs :
          (Merged(p) /\ args[p].op = "log_weight"
                     /\ cur_date'[p] \in DOMAIN history[p]) =>
              LET old == history[p][cur_date'[p]]
                  new == history'[p][cur_date'[p]]
              IN /\ new.weight = Some(args[p].weight)
                 /\ new.workout = old.workout
                 /\ new.training = old.training
                 /\ new.biking = old.biking
                 /\ new.cheatday = old.cheatday
      ]_vars

\* A weight has been logged for a date whose stored record holds a workout, a
\* biking distance and a cheat day.
C2_Witness ==
    \E p \in Procs : \E d \in DOMAIN history[p] :
        /\ pc[p] = "save"
        /\ d = cur_date[p]
        /\ file.whole
        /\ d \in DOMAIN from_str(file.entries).map
        /\ from_str(file.entries).map[d] = Day_new(None, TRUE, FALSE, Some(999), TRUE)
        /\ history[p][d] = Day_new(Some(8000), TRUE, FALSE, Some(999), TRUE)

\* C3: log_sport leaves the weight of every record the history holds as it
\* was, whatever workout, training, biking and cheatday it is given.
C3_WeightUntouched ==
    [][\A p \in Procs :
          (Merged(p) /\ args[p].op = "log_sport") =>
              \A d \in DOMAIN history[p] :
                  /\ d \in DOMAIN history'[p]
                  /\ history'[p][d].weight = history[p][d].weight
      ]_vars

\* log_weight(70.5) then log_sport(workout=true) for 2024-01-01.
C3_Witness ==
    \E p \in Procs :
        LET d == parse_from_str([y |-> 2024, m |-> 1, d |-> 1, sep |-> "-"]).date
        IN /\ pc[p] = "save"
           /\ file = Written(d :> Day_new(Some(7050), FALSE, FALSE, None, FALSE))
           /\ history[p] = (d :> Day_new(Some(7050), TRUE, FALSE, None, FALSE))

\* C4: on a date that has a record, log_sport stores the biking value it is
\* given, and keeps the stored one when it is given none; log_weight keeps
\* the stored one.
C4_BikingLastPresent ==
    [][\A p \in Procs :
          (Merged(p) /\ cur_date'[p] \in DOMAIN history[p]) =>
              LET old == history[p][cur_date'[p]]
                  new == history'[p][cur_date'[p]]
              IN new.biking =
                    IF args[p].op = "log_sport" /\ args[p].biking # None
                    THEN args[p].biking
                    ELSE old.biking
      ]_vars

\* A present value has overwritten a present one: 9.99 stored, 10.0 logged.
C4_Witness ==
    \E p \in Procs : \E d \in DOMAIN history[p] :
        /\ pc[p] = "save"
        /\ d = cur_date[p]
        /\ file.whole
        /\ d \in DOMAIN from_str(file.entries).map
        /\ from_str(file.entries).map[d].biking = Some(999)
        /\ history[p][d].biking = Some(1000)

(* ------------------------------------------------------ error properties *)

\* The step in which a log call of p returns.
Returns(p) == pc[p] \in {"load", "date", "save", "write"} /\ pc'[p] = "idle"

\* C5: every log call either merges and persists the whole new store, or
\* fails and leaves the file as it was when the call began.
C5_AllOrNothing ==
    [][\A p \in Procs :
          Returns(p) =>
              IF result'[p] = "Ok"
              THEN file' = Written(history[p])
              ELSE file' = file0[p]
      ]_vars

\* The running call of p was given a date string that does not parse.
BadDate(p) ==
    /\ pc[p] \in {"load", "date"}
    /\ args[p].date_str # None
    /\ ~parse_from_str(args[p].date_str[1]).ok

\* C6 as claimed: a call with a date string that does not parse returns the
\* date-parse error, never reaches save and leaves the file as it was.
C6_BadDateParseError ==
    [][\A p \in Procs :
          (BadDate(p) /\ pc'[p] # pc[p]) =>
              /\ file' = file
              /\ pc'[p] \in {"date", "idle"}
              /\ pc'[p] = "idle" => result'[p] = "ChronoParse"
      ]_vars

\* C6: a call with a date string that does not parse returns an error, never
\* reaches save and leaves the file as it was; the error is the date-parse
\* error when load succeeded and the error of load when load failed.
C6_BadDateNoSave ==
    [][\A p \in Procs :
          (BadDate(p) /\ pc'[p] # pc[p]) =>
              /\ file' = file
              /\ pc[p] = "load" =>
                    \/ pc'[p] = "date"
                    \/ /\ pc'[p] = "idle"
                       /\ result'[p] \in {"XDGBaseDirectories", "IOError", "Ron"}
              /\ pc[p] = "date" =>
                    /\ pc'[p] = "idle"
                    /\ result'[p] = "ChronoParse"
      ]_vars

\* A call on a store that holds records has returned the date-parse error.
C6_Witness ==
    \E p \in Procs :
        /\ pc[p] = "idle"
        /\ result[p] = "ChronoParse"
        /\ file.whole
        /\ file.entries # {}

(* ------------------------------------------------------ store properties *)

EmptyDay == Day_new(None, FALSE, FALSE, None, FALSE)

\* C7: no record with weight absent, workout, training and cheatday false and
\* biking absent is created or persisted.
C7_NoEmptyRecord ==
    /\ \A p \in Procs : \A d \in DOMAIN history[p] : history[p][d] # EmptyDay
    /\ file.whole => \A e \in file.entries : de_day(e) # EmptyDay

\* C10: after log calls that ran one after another and all went through, the
\* file holds the store that the same merges, applied in the same order to
\* one store in memory, produce; before any call there is no file.
C10_SequentialPersistence ==
    (allok /\ \A p \in Procs : pc[p] \in {"idle", "print"}) =>
        IF calls = 0
        THEN file = NoFile /\ mem = EmptyMap
        ELSE /\ file.exists
             /\ file.whole
             /\ from_str(file.entries).ok
             /\ from_str(file.entries).map = mem

\* Two calls have gone through and the store holds two dates.
C10_Witness ==
    /\ allok
    /\ calls = 2
    /\ \A p \in Procs : pc[p] = "idle"
    /\ Cardinality(DOMAIN mem) = 2
    /\ file = Written(mem)

(* ----------------------------------------------------- streak properties *)

\* The day i days before date.
RECURSIVE days_back(_, _)
days_back(date, i) == IF i = 0 THEN date ELSE pred(days_back(date, i - 1))

\* date and the k - 1 days before it all have active records.
ActiveRun(map, date, k) ==
    \A i \in 0..(k - 1) :
        /\ days_back(date, i) \in DOMAIN map
        /\ is_active(map[days_back(date, i)])

LargestRun(map, date) ==
    CHOOSE k \in 0..Cardinality(DOMAIN map) :
        ActiveRun(map, date, k) /\ ~ActiveRun(map, date, k + 1)

\* Reference dates: every day that can hold a record, and the days before.
ProbeDates == Todays \cup { pred(t) : t \in Todays }

StoredMap == from_str(file.entries).map

\* C8: the streak ending at D is 0 if D has no record or is not active and
\* 1 + the streak ending at the day before D otherwise; it is the largest k
\* such that D and the k - 1 days before it all have active records.
C8_Streak ==
    /\ \A D \in ProbeDates :
          /\ get_sport_streak(StoredMap, D) =
                IF D \notin DOMAIN StoredMap \/ ~is_active(StoredMap[D])
                THEN 0
                ELSE 1 + get_sport_streak(StoredMap, pred(D))
          /\ get_sport_streak(StoredMap, D) = LargestRun(StoredMap, D)
    /\ \A p \in Procs :
          pc[p] = "print" =>
              \E t \in Todays : out[p].sport_streak = LargestRun(StoredMap, t)

\* D, D-1 and D-2 hold a workout and D-3 has no record: analyze prints 3.
C8_Witness ==
    \E p \in Procs :
        /\ pc[p] = "print"
        /\ out[p].sport_streak = 3
        /\ \A d \in DOMAIN StoredMap : StoredMap[d].workout

\* C9: a day counts for the streak exactly when workout is true, or training
\* is true, or biking is present and at least 10.0; weight and cheatday do
\* not count.
C9_Active ==
    \A D \in DOMAIN StoredMap :
        (get_sport_streak(StoredMap, D) >= 1) <=>
            \/ StoredMap[D].workout
            \/ StoredMap[D].training
            \/ (StoredMap[D].biking # None /\ StoredMap[D].biking[1] >= 1000)

\* Biking at 10.0 starts a streak; the day before, with 9.99, a weight and a
\* cheat day, does not extend it.
C9_Witness ==
    \E p \in Procs : \E D \in DOMAIN StoredMap :
        /\ pc[p] = "print"
        /\ out[p].sport_streak = 1
        /\ StoredMap[D] = Day_new(None, FALSE, FALSE, Some(1000), FALSE)
        /\ pred(D) \in DOMAIN StoredMap
        /\ StoredMap[pred(D)] = Day_new(Some(7050), FALSE, FALSE, Some(999), TRUE)
        /\ DOMAIN StoredMap = {D, pred(D)}

(* ------------------------------------------------ overlapping invocations *)

\* C11: when two log calls overlap and no step of either fails, the file a
\* call leaves when it returns success is exactly the store that call saved:
\* the last writer wins.
C11_LastWriterWins ==
    [][\A p \in Procs :
          (pc[p] = "write" /\ pc'[p] = "idle" /\ result'[p] = "Ok" /\ allok') =>
              file' = Written(history[p])
      ]_vars

\* Both calls have returned success, for two dates, and the file holds the
\* record of one date only: the update of the other call is lost.
C11_LostUpdate ==
    /\ allok
    /\ \A p \in Procs : pc[p] = "idle" /\ result[p] = "Ok"
    /\ Cardinality(DOMAIN mem) = 2
    /\ file.whole
    /\ Cardinality(DOMAIN from_str(file.entries).map) = 1

(* ----------------------------------------------------- record creation *)

\* C12: log_weight for a date without a record creates the record with the
\* logged weight, workout, training and cheatday false and biking absent.
C12_WeightCreates ==
    [][\A p \in Procs :
          (Merged(p) /\ args[p].op = "log_weight"
                     /\ cur_date'[p] \notin DOMAIN history[p]) =>
              /\ cur_date'[p] \in DOMAIN history'[p]
              /\ history'[p][cur_date'[p]].weight = Some(args[p].weight)
              /\ history'[p][cur_date'[p]].workout = FALSE
              /\ history'[p][cur_date'[p]].training = FALSE
              /\ history'[p][cur_date'[p]].biking = None
              /\ history'[p][cur_date'[p]].cheatday = FALSE
      ]_vars

\* A weight has been logged into the empty store.
C12_Witness ==
    \E p \in Procs :
        /\ pc[p] = "save"
        /\ file = NoFile
        /\ history[p] = (cur_date[p] :> Day_new(Some(7050), FALSE, FALSE, None, FALSE))

\* C13: log_sport for a date without a record creates the record with the
\* workout, training, biking and cheatday it is given and no weight.
C13_SportCreates ==
    [][\A p \in Procs :
          (Merged(p) /\ args[p].op = "log_sport"
                     /\ cur_date'[p] \notin DOMAIN history[p]) =>
              /\ cur_date'[p] \in DOMAIN history'[p]
              /\ history'[p][cur_date'[p]].weight = None
              /\ history'[p][cur_date'[p]].workout = args[p].workout
              /\ history'[p][cur_date'[p]].training = args[p].training
              /\ history'[p][cur_date'[p]].biking = args[p].biking
              /\ history'[p][cur_date'[p]].cheatday = args[p].cheatday
      ]_vars

\* A workout, 10.0 of biking and a cheat day have been logged into the empty
\* store in one call.
C13_Witness ==
    \E p \in Procs :
        /\ pc[p] = "save"
        /\ file = NoFile
        /\ history[p] = (cur_date[p] :> Day_new(None, TRUE, FALSE, Some(1000), TRUE))

(* ------------------------------------------------------------ round trip *)

\* C14: a history that save has written is the history load returns next: the
\* same dates and, for each date, the same weight, workout, training, biking
\* and cheatday.
C14_RoundTrip ==
    [][\A p \in Procs :
          (pc[p] = "write" /\ pc'[p] = "idle" /\ file' # file) =>
              History_load(file', "none") = [ok |-> TRUE, map |-> history[p], err |-> ""]
      ]_vars

\* A save has written a record that holds a weight with a fraction and a
\* biking distance.
C14_Witness ==
    /\ pc[1] = "idle"
    /\ result[1] = "Ok"
    /\ file.whole
    /\ \E e \in file.entries :
          /\ e.weight = Some([int |-> 70, frac |-> 50])
          /\ e.biking = Some([int |-> 9, frac |-> 99])

(* ------------------------------------------------------------------ load *)

\* The step in which call p finishes History::load().
Loaded(p) == pc[p] = "load" /\ pc'[p] # "load"

\* The file holds a text that decodes.
Decodable(f) == f.whole /\ from_str(f.entries).ok

\* C15 as stated: load on a location that was never written returns an empty
\* store and not an error.
C15_NeverWrittenNoError ==
    [][\A p \in Procs :
          (Loaded(p) /\ ~file.exists) =>
              pc'[p] = "date" /\ history'[p] = EmptyMap
      ]_vars

\* C15: once the data directories are resolved, load on a location that was
\* never written returns an empty store; load returns an I/O error only when
\* the file exists, a format error only when the file exists and its contents
\* do not decode; a load that fails produces no store and load writes nothing.
C15_Load ==
    [][\A p \in Procs :
          Loaded(p) =>
              /\ file' = file
              /\ (~file.exists /\ result'[p] # "XDGBaseDirectories") =>
                    pc'[p] = "date" /\ history'[p] = EmptyMap
              /\ result'[p] = "IOError" => file.exists
              /\ result'[p] = "Ron" => file.exists /\ ~Decodable(file)
              /\ pc'[p] = "idle" =>
                    /\ result'[p] \in {"XDGBaseDirectories", "IOError", "Ron"}
                    /\ history'[p] = EmptyMap
      ]_vars

\* A first call has loaded the empty store from the location nobody had
\* written and has left the file it created empty; the load of the second
\* call has returned the format error.
C15_Witness ==
    /\ calls = 2
    /\ pc[1] = "idle"
    /\ result[1] = "Ron"
    /\ file = Truncated

(* ----------------------------------------------------------------- table *)

\* The order of two printed dates YYYY-MM-DD.
printed_before(a, b) ==
    \/ a.y < b.y
    \/ a.y = b.y /\ a.m < b.m
    \/ a.y = b.y /\ a.m = b.m /\ a.d < b.d

\* C16: the table analyze prints has exactly one row for every date that has
\* a record and no other row, and its rows are in strictly ascending order
\* of their dates.
C16_Table ==
    \A p \in Procs :
        pc[p] = "print" =>
            LET table == out[p].table
            IN /\ Len(table) = Cardinality(DOMAIN StoredMap)
               /\ { table[i].date : i \in 1..Len(table) } =
                     { date_to_string(d) : d \in DOMAIN StoredMap }
               /\ \A i \in 1..Len(table), j \in 1..Len(table) :
                     i < j => printed_before(table[i].date, table[j].date)

\* The table of a store with records on the last day of a year and on the
\* first two days of the next.
C16_Witness ==
    \E p \in Procs :
        /\ pc[p] = "print"
        /\ Len(out[p].table) = 3
        /\ out[p].table[1].date = [y |-> 2023, m |-> 12, d |-> 31, sep |-> "-"]
        /\ out[p].table[3].date = [y |-> 2024, m |-> 1, d |-> 2, sep |-> "-"]

(* ----------------------------------------------------------- termination *)

\* C17: get_sport_streak returns for every store and every reference date:
\* the walk back from the reference date stops at the first date that has no
\* record or is not active, and the streak it returns is at most the number
\* of records.
C17_StreakStops ==
    \A p \in Procs :
        /\ result[p] # "panic"
        /\ pc[p] = "print" =>
              LET streak == out[p].sport_streak
                  D == cur_date[p]
              IN /\ streak \in 0..Cardinality(DOMAIN StoredMap)
                 /\ \A i \in 0..(streak - 1) :
                       /\ days_back(D, i) \in DOMAIN StoredMap
                       /\ is_active(StoredMap[days_back(D, i)])
                 /\ \/ days_back(D, streak) \notin DOMAIN StoredMap
                    \/ ~is_active(StoredMap[days_back(D, streak)])

\* A walk that returns: two active records, and a streak of 2 that stops at
\* the day without a record before them.
C17_Returned ==
    \E p \in Procs :
        /\ pc[p] = "print"
        /\ out[p].sport_streak = 2
        /\ Cardinality(DOMAIN StoredMap) = 2

(* ------------------------------------------------------- frame over dates *)

\* C18: a log_weight or log_sport for date D leaves the record of every
\* other date as it was, removes no date and adds at most D; over the calls
\* of a run the set of recorded dates only grows.
C18_Frame ==
    [][/\ \A p \in Procs :
            Merged(p) =>
                /\ DOMAIN history'[p] = DOMAIN history[p] \cup {cur_date'[p]}
                /\ \A d \in DOMAIN history[p] \ {cur_date'[p]} :
                      history'[p][d] = history[p][d]
       /\ allok' => DOMAIN mem \subseteq DOMAIN mem'
      ]_vars

\* The second call has merged into a store that holds the record of another
\* date, and that record is still the one the file holds.
C18_Witness ==
    \E p \in Procs :
        /\ pc[p] = "save"
        /\ file.whole
        /\ Cardinality(DOMAIN history[p]) = 2
        /\ \E d \in DOMAIN history[p] \ {cur_date[p]} :
              /\ d \in DOMAIN StoredMap
              /\ history[p][d] = StoredMap[d]
              /\ history[p][d].weight # None

(* ------------------------------------------------- order of the merges *)

\* The arguments of a log_weight and of a log_sport.
WeightArgs(w) == [NoArgs EXCEPT !.op = "log_weight", !.weight = w]
SportArgs(s) ==
    [NoArgs EXCEPT !.op = "log_sport", !.workout = s[1], !.training = s[2],
                   !.biking = s[3], !.cheatday = s[4]]

\* C19: on one date, a log_sport applied twice with the same arguments gives
\* the store it gives applied once; two log_sport that supply no biking
\* value give the same store in either order; and a log_weight and a
\* log_sport give the same store in either order.
C19_Merges ==
    [][\A p \in Procs :
          Merged(p) =>
              LET a == [args[p] EXCEPT !.date_str = None]
                  D == cur_date'[p]
                  before == history[p]
                  after == history'[p]
              IN /\ a.op = "log_sport" => merge(after, a, D) = after
                 /\ (a.op = "log_sport" /\ a.biking = None) =>
                       \A s \in SportInputs :
                           s[3] = None =>
                               merge(after, SportArgs(s), D) =
                                   merge(merge(before, SportArgs(s), D), a, D)
                 /\ a.op = "log_sport" =>
                       \A w \in Weights :
                           merge(after, WeightArgs(w), D) =
                               merge(merge(before, WeightArgs(w), D), a, D)
                 /\ a.op = "log_weight" =>
                       \A s \in SportInputs :
                           merge(after, SportArgs(s), D) =
                               merge(merge(before, SportArgs(s), D), a, D)
      ]_vars

\* A log_sport has merged a workout into the record a first log_sport wrote
\* with a training, a biking distance and no workout.
C19_Witness ==
    \E p \in Procs :
        /\ pc[p] = "save"
        /\ file.whole
        /\ cur_date[p] \in DOMAIN StoredMap
        /\ StoredMap[cur_date[p]] = Day_new(None, FALSE, FALSE, Some(999), FALSE)
        /\ history[p][cur_date[p]] = Day_new(None, TRUE, FALSE, Some(999), FALSE)

(* --------------------------------------------------------------- analyze *)

\* C20: analyze only reads: while no log call is running, whatever analyze
\* does, whether it prints or fails, leaves the file as it was, and analyze
\* never goes on to save.
C20_AnalyzeReadOnly ==
    [][/\ (\A p \in Procs : pc[p] \in {"idle", "print"} /\ pc'[p] \in {"idle", "print"}) =>
              file' = file
       /\ \A p \in Procs : pc[p] = "print" => pc'[p] \in {"print", "idle"}
      ]_vars

\* analyze has printed the table of a store of two records, and the file
\* still holds that store.
C20_Witness ==
    \E p \in Procs :
        /\ pc[p] = "print"
        /\ Len(out[p].table) = 2
        /\ allok
        /\ file = Written(mem)

====
